---- MODULE Spec2Model ----
(***************************************************************************)
(* Model of app.py (FastAPI + yt-dlp relay): the /api handler and one     *)
(* /dl request, from extraction through warm-up, HEAD probe, the buffered *)
(* pass or the streamed pass, down to the body generator's finally block. *)
(* Every awaited network call is a step that may raise; header names are  *)
(* lower-cased, as httpx.Headers and starlette's MutableHeaders are       *)
(* case-insensitive.                                                      *)
(*                                                                        *)
(* Spec          one request, step by step                                *)
(* SpecFilename  make_filename applied to a title                         *)
(* SpecPick      pick_format applied to an extraction result              *)
(* SpecPair      two requests side by side over the module's dicts        *)
(***************************************************************************)
EXTENDS Integers, Sequences, FiniteSets, TLC

\* ------------------------------------------------------------------ bounds
MaxChunks == 2

\* length of the titles that are enumerated in full
MaxTitleLen == 3

\* number of candidate formats of an extraction result
MaxFormats == 2

\* --------------------------------------------------------------- constants
MAX_BUFFER_MB == 80

MAX_BUFFER_BYTES == MAX_BUFFER_MB * 1024 * 1024

\* a header that is missing (Python None / key not in mapping)
None == "<absent>"

\* ------------------------------------------------------------ input domains
\* values of the downstream Range header
RangeVals == {"bytes=0-99"}

\* status codes an upstream answer may carry
StatusCodes == {200, 206, 399, 400, 404}

\* body chunks an upstream stream may deliver
Chunks == {"a", "b"}

\* sizes of a fully read body, around the ceiling
BodySizes == {0, 3, MAX_BUFFER_BYTES, MAX_BUFFER_BYTES + 1}

\* messages of the exceptions the collaborators raise
ExtractMsg == "Unsupported URL"
NetMsg == "ConnectError"

\* what extract() hands back as vurl: a URL, None, or the empty string
VUrls == {"https://cdn/v.mp4", None, ""}

Titles == {[some |-> FALSE, text |-> << >>], [some |-> TRUE, text |-> << "a", "/", "U+044F" >>]}

\* the response headers the handler reads
HdrNames == {"content-type", "content-length", "content-range", "accept-ranges",
             "etag", "last-modified", "cache-control"}

\* header values the upstream may send
HdrValues(n) ==
  CASE n = "content-type"   -> {None, "video/webm"}
    [] n = "content-length" -> {None, "2"}
    [] n = "content-range"  -> {None, "bytes 0-99/500"}
    [] n = "accept-ranges"  -> {None, "none"}
    [] n = "etag"           -> {"W/1"}
    [] n = "last-modified"  -> {None}
    [] n = "cache-control"  -> {None, "no-store"}

Headers(ct, cl, cr, ar, et, lm, cc) ==
  [n \in HdrNames |->
     CASE n = "content-type"   -> ct
       [] n = "content-length" -> cl
       [] n = "content-range"  -> cr
       [] n = "accept-ranges"  -> ar
       [] n = "etag"           -> et
       [] n = "last-modified"  -> lm
       [] n = "cache-control"  -> cc]

UpstreamHeaders ==
  { Headers(ct, cl, cr, ar, et, lm, cc) :
      ct \in HdrValues("content-type"), cl \in HdrValues("content-length"),
      cr \in HdrValues("content-range"), ar \in HdrValues("accept-ranges"),
      et \in HdrValues("etag"), lm \in HdrValues("last-modified"),
      cc \in HdrValues("cache-control") }

\* headers a HEAD answer may carry (only three are read); its length differs
\* from the one a GET answer states, so that the two can be told apart
ProbeHeaders ==
  { Headers(ct, cl, None, ar, "W/1", None, None) :
      ct \in HdrValues("content-type"), cl \in {None, "3"},
      ar \in HdrValues("accept-ranges") }

\* names of the headers of a downstream response
RespHdrNames == HdrNames \cup {"content-disposition"}

NoHeaders == [n \in RespHdrNames |-> None]

\* ------------------------------------------------------------------- state
VARIABLES
  pc,            \* position of the request in its handler
  handler,       \* "none", "api" or "dl"
  reqRange,      \* the downstream Range header, None when absent
  vurl, title,   \* what extract() returned
  client,        \* "none", "open", "closed": the httpx.AsyncClient
  clientCloses,  \* number of client.aclose() calls
  upstreamSt,    \* "none", "open", "closed": the streamed upstream response
  upstreamCloses,\* number of upstream.aclose() calls
  head_len, head_type, head_accept_ranges,
  want_range,
  bufferMode,    \* TRUE once the branch of line 135 is taken
  calls,         \* the network calls issued so far, in order
  upstream,      \* status and headers of the answer to the resource GET
  bodyRead,      \* r.aread() has returned
  contentLen,    \* len(content) after r.aread()
  received,      \* chunks pulled from upstream.aiter_bytes()
  emitted,       \* chunks yielded by generate()
  resp,          \* the response the handler returned
  finish,        \* how the request ended
  warm,          \* outcome of the warm-up fetch: "none", "ok", "raised"
  probe,         \* outcome of the HEAD probe: "none", "answered", "raised"
  probeStatus,   \* hr.status_code when the probe was answered, else 0
  extracted,     \* outcome of extract(): "none", "returned", "raised"
  arg, result,   \* input and output of a function that is run on its own
  heap,          \* the header mappings (dicts), by object
  tasks          \* the requests that run side by side, each with its locals

vars == << pc, handler, reqRange, vurl, title, client, clientCloses, upstreamSt,
           upstreamCloses, head_len, head_type, head_accept_ranges, want_range,
           bufferMode, calls, upstream, bodyRead, contentLen, received, emitted,
           resp, finish, warm, probe, probeStatus, extracted,
           arg, result, heap, tasks >>

NoResp == [kind |-> "none", status |-> 0, json |-> None, headers |-> NoHeaders, bodyLen |-> 0]

NoUpstream == [status |-> 0, headers |-> [n \in HdrNames |-> None]]

\* ----------------------------------------------------------------- helpers
\* Python truthiness of an optional string
Truthy(v) == v # None /\ v # ""

\* a or b
Or(a, b) == IF Truthy(a) THEN a ELSE b

\* mapping.get(name, default)
Get(h, name, default) == IF h[name] # None THEN h[name] ELSE default

JSONResponse(body, status) ==
  [kind |-> "json", status |-> status, json |-> body, headers |-> NoHeaders, bodyLen |-> 0]

ErrorBody(msg) == [ok |-> FALSE, error |-> msg]

Call(op, target, range, stream) ==
  [op |-> op, target |-> target, range |-> range, stream |-> stream]

\* ------------------------------------------------------------ make_filename
\* A title is absent (Python None) or a text; a text is a sequence of
\* characters.
NoTitle == [some |-> FALSE, text |-> << >>]

Text(t) == [some |-> TRUE, text |-> t]

\* the characters of the titles: a letter, a non-ASCII letter (written by its
\* code point), two kinds of white space, and a character that is illegal in
\* a file name
Whitespace == {" ", "\t"}

Illegal == {"/"}

NonAscii == {"U+044F"}

TitleChars == {"a"} \cup NonAscii \cup Whitespace \cup Illegal

\* line 75: the length the base name is cut to
BaseLimit == 80

Video == << "v", "i", "d", "e", "o" >>

Mp4 == << ".", "m", "p", "4" >>

\* str.strip(): the text between the first and the last character that is
\* not white space
Strip(s) ==
  LET kept == { i \in 1..Len(s) : s[i] \notin Whitespace }
  IN  IF kept = {} THEN << >>
      ELSE SubSeq(s, CHOOSE i \in kept : \A j \in kept : i <= j,
                     CHOOSE i \in kept : \A j \in kept : j <= i)

\* re.sub(class+, by, s): every maximal run of characters of the class is
\* replaced by one character (the last character of a run stands for the run)
SubRuns(class, by, s) ==
  LET marked == [i \in 1..Len(s) |->
                   IF s[i] \notin class THEN s[i]
                   ELSE IF i < Len(s) /\ s[i + 1] \in class THEN "<run>" ELSE by]
  IN  SelectSeq(marked, LAMBDA c : c # "<run>")

\* variant: the base name is not cut
Truncate_Off(s, n) == s

\* s[:n]
Truncate(s, n) == SubSeq(s, 1, IF Len(s) < n THEN Len(s) ELSE n)

\* s or default, for texts
OrText(s, default) == IF s = << >> THEN default ELSE s

\* s.encode("ascii", "ignore").decode("ascii")
AsciiOnly(s) == SelectSeq(s, LAMBDA c : c \notin NonAscii)

\* lines 73-75
Base(t) ==
  LET b0 == Strip(IF t.some THEN OrText(t.text, Video) ELSE Video)
      b1 == SubRuns(Illegal, "_", b0)
      b2 == Strip(SubRuns(Whitespace, " ", b1))
  IN  OrText(Truncate(b2, BaseLimit), Video)

\* lines 72-78: returns (fn_ascii, fn_utf8)
make_filename(t) ==
  LET fn_utf8 == Base(t) \o Mp4
      fn_ascii == OrText(AsciiOnly(fn_utf8), Video \o Mp4)
  IN  << fn_ascii, fn_utf8 >>

\* urllib.parse.quote: a character outside the unreserved set is replaced by
\* its percent-encoding
Unreserved == {"a", "v", "i", "d", "e", "o", "m", "p", "4", ".", "_", "-", "~"}

urlquote(s) == [i \in 1..Len(s) |-> IF s[i] \in Unreserved THEN s[i] ELSE "%" \o s[i]]

\* lines 151-153 and 180-183: the Content-Disposition header
ContentDisposition(t) ==
  LET fn == make_filename(t)
  IN  [filename |-> fn[1], filename_utf8 |-> urlquote(fn[2])]

\* the header names a request mapping may hold
ReqHdrNames == {"User-Agent", "Referer", "Cookie", "Range"}

\* lines 26-40: the content of BASE_CLIENT_HEADERS
BaseHeaders ==
  [n \in ReqHdrNames |->
     CASE n = "User-Agent" -> "Mozilla/5.0"
       [] n = "Referer"    -> "https://www.tiktok.com/"
       [] OTHER            -> None]

\* the requests that may run side by side
Tasks == {1, 2}

\* A dict is an object: two names may stand for the same one. The module's
\* BASE_CLIENT_HEADERS is one object; every request has a slot for each dict
\* it may create.
BASE_CLIENT_HEADERS == [task |-> 0, slot |-> "BASE_CLIENT_HEADERS"]

Obj(i, slot) == [task |-> i, slot |-> slot]

NoObj == [task |-> 0, slot |-> "none"]

Objects == {BASE_CLIENT_HEADERS} \cup { Obj(i, k) : i \in Tasks, k \in {"opts", "info", "hdrs", "req"} }

EmptyDict == [n \in ReqHdrNames |-> None]

InitialHeap == [o \in Objects |-> IF o = BASE_CLIENT_HEADERS THEN BaseHeaders ELSE EmptyDict]

\* everything of a request before it is received, its Range header aside
Fresh ==
  /\ pc = "idle"
  /\ handler = "none"
  /\ vurl = None
  /\ title = NoTitle
  /\ client = "none"
  /\ clientCloses = 0
  /\ upstreamSt = "none"
  /\ upstreamCloses = 0
  /\ head_len = None
  /\ head_type = None
  /\ head_accept_ranges = None
  /\ want_range = FALSE
  /\ bufferMode = FALSE
  /\ calls = << >>
  /\ upstream = NoUpstream
  /\ bodyRead = FALSE
  /\ contentLen = 0
  /\ received = << >>
  /\ emitted = << >>
  /\ resp = NoResp
  /\ finish = "none"
  /\ warm = "none"
  /\ probe = "none"
  /\ probeStatus = 0
  /\ extracted = "none"

Init ==
  /\ reqRange \in RangeVals \cup {None}
  /\ Fresh
  /\ arg = << >>
  /\ result = << >>
  /\ heap = InitialHeap
  /\ tasks = << >>

\* ------------------------------------------------------------ the resolver
\* extract(): raises, or returns (vurl, title, hdrs)
ExtractOutcomes ==
  {[raised |-> TRUE, vurl |-> None, title |-> NoTitle]} \cup
  {[raised |-> FALSE, vurl |-> v, title |-> t] : v \in VUrls, t \in Titles}

\* variant: only a missing URL counts as no video, an empty one passes
NoVideo_OnlyNone(v) == v = None

\* "if not vurl"
NoVideo(v) == ~Truthy(v)

\* what a handler's "except Exception as e" returns
Caught(msg) == JSONResponse(ErrorBody(msg), 500)

\* the request state every step of dl leaves alone unless it says otherwise
Aside == << arg, result, heap, tasks >>
Net == << calls >>
Probed == << head_len, head_type, head_accept_ranges, probe, probeStatus >>
Stream == << upstreamSt, upstreamCloses, received, emitted >>
Buffer == << bodyRead, contentLen >>
Resolved == << vurl, title, extracted >>

\* GET /api
ApiRequest ==
  /\ pc = "idle"
  /\ \E e \in ExtractOutcomes :
       /\ resp' = IF e.raised THEN Caught(ExtractMsg)
                  ELSE IF NoVideo(e.vurl) THEN JSONResponse(ErrorBody("no_video"), 404)
                  ELSE [kind |-> "json", status |-> 200,
                        json |-> [ok |-> TRUE, video_url |-> e.vurl, title |-> e.title],
                        headers |-> NoHeaders, bodyLen |-> 0]
       /\ vurl' = e.vurl
       /\ title' = e.title
       /\ extracted' = IF e.raised THEN "raised" ELSE "returned"
  /\ handler' = "api"
  /\ pc' = "done"
  /\ finish' = "response"
  /\ UNCHANGED << Aside, reqRange, client, clientCloses, want_range, bufferMode, upstream,
                  warm, Net, Probed, Stream, Buffer >>

\* GET /dl, lines 103-111: extract, the no_video exit, the client's creation
DlExtract ==
  /\ pc = "idle"
  /\ handler' = "dl"
  /\ \E e \in ExtractOutcomes :
       /\ vurl' = e.vurl
       /\ title' = e.title
       /\ extracted' = IF e.raised THEN "raised" ELSE "returned"
       /\ IF e.raised
            THEN /\ resp' = Caught(ExtractMsg)
                 /\ pc' = "done" /\ finish' = "response"
                 /\ UNCHANGED client
          ELSE IF NoVideo(e.vurl)
            THEN /\ resp' = JSONResponse(ErrorBody("no_video"), 404)
                 /\ pc' = "done" /\ finish' = "response"
                 /\ UNCHANGED client
          ELSE /\ client' = "open"
               /\ pc' = "warmup"
               /\ UNCHANGED << resp, finish >>
  /\ UNCHANGED << Aside, reqRange, clientCloses, want_range, bufferMode, upstream,
                  warm, Net, Probed, Stream, Buffer >>

\* variant: a failed warm-up is tried again
Warmup_Retry ==
  /\ pc = "warmup"
  /\ calls' = Append(calls, Call("GET", "page", None, FALSE))
  /\ \E raised \in BOOLEAN :
       /\ warm' = IF raised THEN "raised" ELSE "ok"
       /\ pc' = IF raised THEN "warmup" ELSE "probe"
  /\ UNCHANGED << Aside, handler, reqRange, client, clientCloses, want_range, bufferMode,
                  upstream, resp, finish, Resolved, Probed, Stream, Buffer >>

\* lines 114-117: await client.get(url), any exception swallowed
Warmup ==
  /\ pc = "warmup"
  /\ calls' = Append(calls, Call("GET", "page", None, FALSE))
  /\ \E raised \in BOOLEAN : warm' = IF raised THEN "raised" ELSE "ok"
  /\ pc' = "probe"
  /\ UNCHANGED << Aside, handler, reqRange, client, clientCloses, want_range, bufferMode,
                  upstream, resp, finish, Resolved, Probed, Stream, Buffer >>

\* variant: the status of the HEAD answer is not looked at
ProbeAccepted_Any(status) == TRUE

\* line 125
ProbeAccepted(status) == 200 <= status /\ status < 400

\* lines 120-132: await client.head(vurl), then want_range
Probe ==
  /\ pc = "probe"
  /\ calls' = Append(calls, Call("HEAD", "resource", None, FALSE))
  /\ \/ /\ probe' = "raised"
        /\ UNCHANGED << probeStatus, head_len, head_type, head_accept_ranges >>
     \/ \E status \in StatusCodes, h \in ProbeHeaders :
          /\ probe' = "answered"
          /\ probeStatus' = status
          /\ IF ProbeAccepted(status)
               THEN /\ head_len' = h["content-length"]
                    /\ head_type' = h["content-type"]
                    /\ head_accept_ranges' = h["accept-ranges"]
               ELSE UNCHANGED << head_len, head_type, head_accept_ranges >>
  /\ want_range' = (reqRange # None)
  /\ pc' = "decide"
  /\ UNCHANGED << Aside, handler, reqRange, client, clientCloses, bufferMode, upstream,
                  resp, finish, warm, Resolved, Stream, Buffer >>

\* variant: the buffered pass is chosen on the missing length alone
BufferDecision_NoRangeTest(wr, hl) == ~Truthy(hl)

\* variant: every request without a Range header is buffered
BufferDecision_IgnoreLength(wr, hl) == ~wr

\* line 135: "if not want_range and not head_len"
BufferDecision(wr, hl) == ~wr /\ ~Truthy(hl)

Decide ==
  /\ pc = "decide"
  /\ bufferMode' = BufferDecision(want_range, head_len)
  /\ pc' = IF bufferMode' THEN "buf_get" ELSE "stream_open"
  /\ UNCHANGED << Aside, handler, reqRange, client, clientCloses, want_range, upstream,
                  resp, finish, warm, Net, Resolved, Probed, Stream, Buffer >>

\* -------------------------------------------------------------- BufferPass
\* variant: 400 itself is let through
BadUpstream_Above400(status) == status > 400

\* line 137
BadUpstream(status) == status >= 400

\* line 139
BadUpstreamBody(status) == ErrorBody("bad upstream: " \o ToString(status))

\* lines 136-139: await client.get(vurl, headers=base_headers)
BufGet ==
  /\ pc = "buf_get"
  /\ calls' = Append(calls, Call("GET", "resource", None, FALSE))
  /\ \/ /\ resp' = Caught(NetMsg)
        /\ pc' = "done" /\ finish' = "response"
        /\ UNCHANGED << upstream, client, clientCloses >>
     \/ \E status \in StatusCodes, h \in UpstreamHeaders :
          /\ upstream' = [status |-> status, headers |-> h]
          /\ IF BadUpstream(status)
               THEN /\ client' = "closed"
                    /\ clientCloses' = clientCloses + 1
                    /\ resp' = JSONResponse(BadUpstreamBody(status), 502)
                    /\ pc' = "done" /\ finish' = "response"
               ELSE /\ pc' = "buf_read"
                    /\ UNCHANGED << client, clientCloses, resp, finish >>
  /\ UNCHANGED << Aside, handler, reqRange, want_range, bufferMode, warm,
                  Resolved, Probed, Stream, Buffer >>

\* variant: a body of exactly the ceiling is rejected too
TooLarge_AtCeiling(n) == n >= MAX_BUFFER_BYTES

\* line 144
TooLarge(n) == n > MAX_BUFFER_BYTES

\* lines 150-158
BufferedResponse(n) ==
  [kind |-> "full", status |-> 200, json |-> None, bodyLen |-> n,
   headers |->
     [NoHeaders EXCEPT
        !["content-type"] = Get(upstream.headers, "content-type", Or(head_type, "video/mp4")),
        !["content-disposition"] = ContentDisposition(title),
        !["content-length"] = ToString(n),
        !["accept-ranges"] = Or(head_accept_ranges, "bytes"),
        !["cache-control"] = "public, max-age=86400"]]

\* lines 141-158: await r.aread(), close the client, the ceiling, the response
BufRead ==
  /\ pc = "buf_read"
  /\ \/ /\ resp' = Caught(NetMsg)
        /\ UNCHANGED << client, clientCloses, Buffer >>
     \/ \E n \in BodySizes :
          /\ bodyRead' = TRUE
          /\ contentLen' = n
          /\ client' = "closed"
          /\ clientCloses' = clientCloses + 1
          /\ resp' = IF TooLarge(n)
                       THEN JSONResponse(ErrorBody("file too large > "
                                           \o ToString(MAX_BUFFER_MB) \o " MB"), 413)
                       ELSE BufferedResponse(n)
  /\ pc' = "done"
  /\ finish' = "response"
  /\ UNCHANGED << Aside, handler, reqRange, want_range, bufferMode, upstream, warm,
                  Net, Resolved, Probed, Stream >>

\* -------------------------------------------------------------- StreamPass
\* variant: the downstream Range header is not forwarded
StreamRange_Dropped(wr, rr) == None

\* lines 161-163: the Range header of the outgoing request
StreamRange(wr, rr) == IF wr THEN rr ELSE None

\* variant: an upstream error status is reported as success
StreamStatus_Masked(up) == IF up.status >= 400 THEN 200 ELSE up.status

\* line 167
StreamStatus(up) == up.status

\* variant: accept-ranges is left out of the copied headers
CopiedHeaders_NoAcceptRanges == {"content-length", "content-range", "etag", "last-modified"}

\* lines 185-187: the headers copied from the upstream response when present
CopiedHeaders == {"content-length", "content-range", "accept-ranges", "etag", "last-modified"}

CopyThrough(hd, up) ==
  [n \in RespHdrNames |-> IF n \in CopiedHeaders /\ up.headers[n] # None
                            THEN up.headers[n] ELSE hd[n]]

\* resp.headers.setdefault(name, value)
SetDefault(hd, name, value) == IF hd[name] = None THEN [hd EXCEPT ![name] = value] ELSE hd

\* variant: the probed length is injected into range responses too
InjectLength_IgnoreRange(hd) ==
  IF hd["content-length"] = None /\ Truthy(head_len)
    THEN [hd EXCEPT !["content-length"] = head_len] ELSE hd

\* lines 189-190
InjectLength(hd) ==
  IF hd["content-length"] = None /\ Truthy(head_len) /\ ~want_range
    THEN [hd EXCEPT !["content-length"] = head_len] ELSE hd

\* lines 168, 178-193: the headers of the StreamingResponse
StreamHeaders(up) ==
  LET h0 == [NoHeaders EXCEPT
               !["content-type"] = Get(up.headers, "content-type", Or(head_type, "video/mp4")),
               !["content-disposition"] = ContentDisposition(title)]
      h1 == CopyThrough(h0, up)
      h2 == InjectLength(h1)
      h3 == SetDefault(h2, "accept-ranges", Or(head_accept_ranges, "bytes"))
  IN  SetDefault(h3, "cache-control", "public, max-age=86400")

\* lines 161-194: await client.send(req, stream=True), then the response is built
StreamOpen ==
  /\ pc = "stream_open"
  /\ calls' = Append(calls, Call("GET", "resource", StreamRange(want_range, reqRange), TRUE))
  /\ \/ /\ resp' = Caught(NetMsg)
        /\ pc' = "done" /\ finish' = "response"
        /\ UNCHANGED << upstream, upstreamSt >>
     \/ \E status \in StatusCodes, h \in UpstreamHeaders :
          /\ upstream' = [status |-> status, headers |-> h]
          /\ upstreamSt' = "open"
          /\ resp' = [kind |-> "stream", status |-> StreamStatus(upstream'), json |-> None,
                      bodyLen |-> 0, headers |-> StreamHeaders(upstream')]
          /\ pc' = "resp_returned"
          /\ UNCHANGED finish
  /\ UNCHANGED << Aside, handler, reqRange, client, clientCloses, want_range, bufferMode,
                  upstreamCloses, received, emitted, warm, Resolved, Probed, Buffer >>

\* the response's body iterator is started: generate() runs to its first await
GenStart ==
  /\ pc = "resp_returned"
  /\ pc' = "gen_pull"
  /\ UNCHANGED << Aside, handler, reqRange, client, clientCloses, want_range, bufferMode,
                  upstream, resp, finish, warm, Net, Resolved, Probed, Stream, Buffer >>

\* the downstream client goes away before the body iterator is ever started:
\* generate() never enters its try block, so its finally block never runs
DisconnectBeforeStart ==
  /\ pc = "resp_returned"
  /\ pc' = "done"
  /\ finish' = "disconnect"
  /\ UNCHANGED << Aside, handler, reqRange, client, clientCloses, want_range, bufferMode,
                  upstream, resp, warm, Net, Resolved, Probed, Stream, Buffer >>

\* line 172: upstream.aiter_bytes() delivers the next chunk
GenChunk ==
  /\ pc = "gen_pull"
  /\ Len(received) < MaxChunks
  /\ \E c \in Chunks : received' = Append(received, c)
  /\ pc' = "gen_yield"
  /\ UNCHANGED << Aside, handler, reqRange, client, clientCloses, want_range, bufferMode,
                  upstream, resp, finish, warm, Net, Resolved, Probed, Buffer,
                  upstreamSt, upstreamCloses, emitted >>

\* variant: the newest chunk is put in front of what was sent
Yield_InFront(out, chunk) == << chunk >> \o out

\* line 173: yield chunk
Yield(out, chunk) == Append(out, chunk)

GenYield ==
  /\ pc = "gen_yield"
  /\ emitted' = Yield(emitted, received[Len(received)])
  /\ pc' = "gen_pull"
  /\ UNCHANGED << Aside, handler, reqRange, client, clientCloses, want_range, bufferMode,
                  upstream, resp, finish, warm, Net, Resolved, Probed, Buffer,
                  upstreamSt, upstreamCloses, received >>

\* the number of bytes of a chunk, and of a sequence of chunks
ChunkBytes(c) == IF c = "a" THEN 1 ELSE 2

RECURSIVE Bytes(_)
Bytes(cs) == IF cs = << >> THEN 0 ELSE ChunkBytes(Head(cs)) + Bytes(Tail(cs))

\* aiter_bytes() ends without an error only when the body the upstream sent
\* has the length its Content-Length header states, if it states one
Framed(up, cs) ==
  up.headers["content-length"] = None \/ up.headers["content-length"] = ToString(Bytes(cs))

\* the ways the loop of line 172 is left: the stream ends, aiter_bytes raises,
\* or the consumer closes the generator (downstream disconnect)
Endings == {"complete", "upstream_error", "disconnect"}

\* variant: the client is closed by the finally block and once more after it
GenFinally_CloseTwice(how) ==
  /\ pc = "gen_pull"
  /\ upstreamSt' = "closed"
  /\ upstreamCloses' = upstreamCloses + 1
  /\ client' = "closed"
  /\ clientCloses' = clientCloses + 2
  /\ finish' = how
  /\ pc' = "done"
  /\ UNCHANGED << Aside, handler, reqRange, want_range, bufferMode, upstream, resp, warm,
                  Net, Resolved, Probed, Buffer, received, emitted >>

\* lines 174-176: the finally block
GenFinally(how) ==
  /\ pc = "gen_pull"
  /\ how = "complete" => Framed(upstream, received)
  /\ upstreamSt' = "closed"
  /\ upstreamCloses' = upstreamCloses + 1
  /\ client' = "closed"
  /\ clientCloses' = clientCloses + 1
  /\ finish' = how
  /\ pc' = "done"
  /\ UNCHANGED << Aside, handler, reqRange, want_range, bufferMode, upstream, resp, warm,
                  Net, Resolved, Probed, Buffer, received, emitted >>

Next ==
  \/ ApiRequest
  \/ DlExtract
  \/ Warmup
  \/ Probe
  \/ Decide
  \/ BufGet
  \/ BufRead
  \/ StreamOpen
  \/ GenStart
  \/ DisconnectBeforeStart
  \/ GenChunk
  \/ GenYield
  \/ \E how \in Endings : GenFinally(how)

Spec == Init /\ [][Next]_vars

\* ------------------------------------------------------------- properties
ResourceGets == { i \in 1..Len(calls) : calls[i].op = "GET" /\ calls[i].target = "resource" }

IsPrefix(a, b) == Len(a) <= Len(b) /\ \A i \in 1..Len(a) : a[i] = b[i]

\* C1: a /dl request that created its client has closed it by the time the
\* request is finished, on every exit path.
C1_ClientReleasedOnEveryExit ==
  (handler = "dl" /\ pc = "done" /\ client # "none") => client = "closed"

\* C2: within one /dl request the client and the streamed upstream response
\* are each closed at most once.
C2_ClosedAtMostOnce == clientCloses <= 1 /\ upstreamCloses <= 1

C2_Witness ==
  /\ pc = "done" /\ finish = "disconnect"
  /\ clientCloses = 1 /\ upstreamCloses = 1 /\ Len(emitted) = 1

\* C3: a failed warm-up or a failed probe (exception, or a status outside
\* 200..399) never ends the request: the warm-up step always hands over to the
\* probe and the probe step to the decision, no response is produced by either,
\* and after a failed probe no length, type or accept-ranges is recorded.
C3_ProbeFailed == probe = "raised" \/ (probe = "answered" /\ ~(probeStatus \in 200..399))

C3_WarmupProbeNeverFatal ==
  /\ [][ /\ pc = "warmup" => (pc' = "probe" /\ resp' = NoResp /\ finish' = "none")
         /\ pc = "probe" => (pc' = "decide" /\ resp' = NoResp /\ finish' = "none") ]_vars
  /\ [](C3_ProbeFailed =>
          (head_len = None /\ head_type = None /\ head_accept_ranges = None))

C3_Witness ==
  /\ warm = "raised" /\ probe = "answered" /\ probeStatus = 404
  /\ pc = "done" /\ resp.kind = "full"

\* C4: in StreamPass the downstream status is the upstream status, whatever it
\* is, and it is fixed before any chunk is forwarded.
C4_StatusPassedThrough ==
  /\ resp.kind = "stream" => resp.status = upstream.status
  /\ (handler = "dl" /\ ~bufferMode /\ resp.kind = "none") => emitted = << >>

C4_Witness ==
  /\ resp.kind = "stream" /\ upstream.status = 404 /\ resp.status = 404
  /\ finish = "complete" /\ Len(emitted) = 1

\* C5: a downstream Range header is copied verbatim into the one GET of the
\* resource, and a 206 answer with a Content-Range is relayed as 206 with the
\* same Content-Range.
C5_RangeForwardedAndEchoed ==
  reqRange # None =>
    /\ Cardinality(ResourceGets) <= 1
    /\ \A i \in ResourceGets : calls[i].range = reqRange
    /\ (resp.kind = "stream" /\ upstream.status = 206
          /\ upstream.headers["content-range"] # None)
         => (resp.status = 206
               /\ resp.headers["content-range"] = upstream.headers["content-range"])

C5_Witness ==
  /\ reqRange = "bytes=0-99" /\ resp.kind = "stream" /\ resp.status = 206
  /\ resp.headers["content-range"] = "bytes 0-99/500"
  /\ \E i \in ResourceGets : calls[i].range = "bytes=0-99"

\* C6: buffer mode is never entered by a request that carries a Range header.
C6_NoBufferWithRange ==
  reqRange # None =>
    /\ ~bufferMode
    /\ pc \notin {"buf_get", "buf_read"}
    /\ ~bodyRead
    /\ \A i \in ResourceGets : calls[i].stream

C6_Witness ==
  /\ reqRange # None /\ probe = "raised" /\ warm = "raised"
  /\ head_len = None /\ pc = "done" /\ finish = "complete"

\* C7: a buffered body above MAX_BUFFER_BYTES gives 413 with a JSON error, no
\* body byte and a closed client; a body of at most MAX_BUFFER_BYTES is not
\* rejected.
C7_CeilingEnforced ==
  bodyRead =>
    /\ client = "closed"
    /\ emitted = << >>
    /\ IF contentLen > MAX_BUFFER_BYTES
         THEN /\ resp.kind = "json" /\ resp.status = 413
              /\ resp.json.ok = FALSE /\ resp.bodyLen = 0
         ELSE resp.kind = "full" /\ resp.status = 200

C7_Witness ==
  /\ bodyRead /\ contentLen = MAX_BUFFER_BYTES + 1
  /\ resp.status = 413 /\ client = "closed"

\* C8: in BufferPass an upstream status >= 400 gives a 502 JSON error naming
\* that status, with no body read and the client closed; a status below 400
\* with a body within the ceiling gives one 200 response whose Content-Length
\* is the number of buffered bytes.
C8_BufferPassOutcome ==
  (bufferMode /\ upstream.status # 0) =>
    IF upstream.status >= 400
      THEN /\ resp.kind = "json" /\ resp.status = 502
           /\ resp.json = [ok |-> FALSE,
                           error |-> "bad upstream: " \o ToString(upstream.status)]
           /\ ~bodyRead /\ resp.bodyLen = 0
           /\ client = "closed" /\ pc = "done"
      ELSE (bodyRead /\ contentLen <= MAX_BUFFER_BYTES) =>
             /\ resp.kind = "full" /\ resp.status = 200
             /\ resp.bodyLen = contentLen
             /\ resp.headers["content-length"] = ToString(contentLen)

C8_Witness ==
  /\ bufferMode /\ upstream.status = 400 /\ resp.status = 502
  /\ resp.json.error = "bad upstream: 400" /\ client = "closed"

\* C9: a resolver failure ends /api and /dl before any relay work: no URL
\* gives 404 with exactly {"ok": false, "error": "no_video"}, a raised
\* extraction gives 500 with the message, and in both cases no client exists
\* and no upstream call was issued.
C9_ResolverFailed == extracted = "raised" \/ (extracted = "returned" /\ vurl \in {None, ""})

C9_ResolverShortCircuits ==
  C9_ResolverFailed =>
    /\ pc = "done" /\ resp.kind = "json"
    /\ IF extracted = "raised"
         THEN resp.status = 500 /\ resp.json = [ok |-> FALSE, error |-> ExtractMsg]
         ELSE resp.status = 404 /\ resp.json = [ok |-> FALSE, error |-> "no_video"]
    /\ client = "none" /\ clientCloses = 0
    /\ calls = << >>

C9_Witness ==
  /\ handler = "dl" /\ extracted = "returned" /\ vurl = "" /\ resp.status = 404

\* C10: what generate() has yielded is always a prefix of what it has pulled
\* from upstream, chunk for chunk, and equals it when the stream was relayed
\* to its end.
C10_EmittedIsPrefixOfReceived ==
  /\ IsPrefix(emitted, received)
  /\ finish = "complete" => emitted = received

C10_Witness ==
  /\ finish = "complete" /\ Len(emitted) = 2 /\ emitted[1] # emitted[2]

\* C11: once the upstream streaming response is open, a downstream disconnect
\* (also one that comes before generate() was first iterated) leaves the
\* upstream response and the client closed, and no further request for the
\* resource is issued.
C11_DisconnectReleases ==
  finish = "disconnect" =>
    /\ upstreamSt = "closed" /\ client = "closed"
    /\ Cardinality(ResourceGets) = 1

\* C12: past the decision a request with a Range header is streamed with that
\* header, a request without one but with a probed length is streamed without
\* a Range header, and any other request is buffered; exactly one of the two
\* passes is entered.
C12_StreamGets == { i \in ResourceGets : calls[i].stream }

C12_DecisionRouting ==
  (handler = "dl" /\ client # "none" /\ pc \notin {"idle", "warmup", "probe", "decide"}) =>
    /\ IF reqRange # None
         THEN ~bufferMode /\ \A i \in C12_StreamGets : calls[i].range = reqRange
         ELSE IF head_len # None
           THEN ~bufferMode /\ \A i \in C12_StreamGets : calls[i].range = None
           ELSE bufferMode
    /\ bufferMode => (C12_StreamGets = {} /\ upstreamSt = "none" /\ resp.kind # "stream")
    /\ ~bufferMode => (ResourceGets \subseteq C12_StreamGets /\ ~bodyRead /\ resp.kind # "full")
    /\ pc \in {"buf_get", "stream_open"} => ResourceGets = {}
    /\ pc \notin {"buf_get", "stream_open"} => Cardinality(ResourceGets) = 1

C12_Witness ==
  /\ reqRange = None /\ head_len = "3" /\ resp.kind = "stream" /\ finish = "complete"
  /\ \E i \in C12_StreamGets : calls[i].range = None

\* C13: the downstream Cache-Control is the upstream response's when it has
\* one, and "public, max-age=86400" only when it has none.
C13_CacheControlFromUpstream ==
  resp.kind \in {"stream", "full"} =>
    resp.headers["cache-control"] =
      (IF upstream.headers["cache-control"] # None
         THEN upstream.headers["cache-control"] ELSE "public, max-age=86400")

\* C14 as stated: in both passes the downstream Accept-Ranges is the upstream
\* response's when it has one and "bytes" whenever it has none, for every
\* probe outcome.
C14_AcceptRangesUpstreamOrBytes ==
  resp.kind \in {"stream", "full"} =>
    resp.headers["accept-ranges"] =
      (IF upstream.headers["accept-ranges"] # None
         THEN upstream.headers["accept-ranges"] ELSE "bytes")

\* C14 as amended: in StreamPass the downstream Accept-Ranges is the upstream
\* response's when it has one; otherwise, and always in BufferPass, it is the
\* probed accept-ranges when the probe recorded one, and "bytes" when not.
C14_ProbedOrBytes == IF head_accept_ranges # None THEN head_accept_ranges ELSE "bytes"

C14_AcceptRangesUpstreamProbedOrBytes ==
  /\ resp.kind = "stream" =>
       resp.headers["accept-ranges"] =
         (IF upstream.headers["accept-ranges"] # None
            THEN upstream.headers["accept-ranges"] ELSE C14_ProbedOrBytes)
  /\ resp.kind = "full" => resp.headers["accept-ranges"] = C14_ProbedOrBytes

C14_Witness ==
  /\ resp.kind = "stream" /\ upstream.headers["accept-ranges"] = None
  /\ probe = "answered" /\ head_accept_ranges = "none"
  /\ resp.headers["accept-ranges"] = "none"

\* C15: in StreamPass the downstream Content-Length is the upstream response's
\* when it has one; otherwise it is the probed length if and only if no Range
\* was requested and a length was probed; otherwise there is none.
C15_StreamContentLength ==
  resp.kind = "stream" =>
    resp.headers["content-length"] =
      (IF upstream.headers["content-length"] # None
         THEN upstream.headers["content-length"]
         ELSE IF reqRange = None /\ head_len # None THEN head_len ELSE None)

C15_Witness ==
  /\ resp.kind = "stream" /\ reqRange # None /\ head_len = "3"
  /\ upstream.headers["content-length"] = None
  /\ resp.headers["content-length"] = None

\* C19: the upstream calls of a /dl request are, in this order and each at
\* most once, the warm-up GET of the page, the HEAD of the resource and one
\* GET of the resource, all issued on the request's one client.
C19_Pattern ==
  << Call("GET", "page", None, FALSE), [op |-> "HEAD", target |-> "resource"],
     [op |-> "GET", target |-> "resource"] >>

C19_SinglePassNoRetry ==
  /\ Len(calls) <= 3
  /\ calls # << >> => (handler = "dl" /\ client # "none")
  /\ Len(calls) >= 1 => calls[1] = C19_Pattern[1]
  /\ \A i \in 2..Len(calls) :
       calls[i].op = C19_Pattern[i].op /\ calls[i].target = C19_Pattern[i].target

C19_Witness ==
  /\ Len(calls) = 3 /\ warm = "raised" /\ probe = "raised"
  /\ pc = "done" /\ resp.status = 500 /\ calls[3].op = "GET"

\* C20: a /dl response that carries a Content-Length and whose body was
\* delivered to its end has a body of exactly that many bytes.
C20_Delivered ==
  \/ resp.kind = "full"
  \/ resp.kind = "stream" /\ finish = "complete"

C20_BodyBytes == IF resp.kind = "full" THEN resp.bodyLen ELSE Bytes(emitted)

C20_ContentLengthIsBodyLength ==
  (C20_Delivered /\ resp.headers["content-length"] # None) =>
    resp.headers["content-length"] = ToString(C20_BodyBytes)

\* ------------------------------------------------- make_filename on its own
\* all texts of at most n characters
Texts(n) == UNION { [1..k -> TitleChars] : k \in 0..n }

Pad(c, k) == [i \in 1..k |-> c]

\* titles around the length the base name is cut to: a run of one character
\* followed by a short text
LongTexts ==
  { Pad(c, k) \o s : c \in TitleChars, k \in (BaseLimit - 2)..(BaseLimit + 1),
                     s \in Texts(MaxTitleLen - 1) }

FilenameInputs == {NoTitle} \cup { Text(t) : t \in Texts(MaxTitleLen) \cup LongTexts }

\* the variables of a request, which a function run on its own leaves alone
Request == << pc, handler, reqRange, vurl, title, client, clientCloses, upstreamSt,
              upstreamCloses, head_len, head_type, head_accept_ranges, want_range,
              bufferMode, calls, upstream, bodyRead, contentLen, received, emitted,
              resp, finish, warm, probe, probeStatus, extracted >>

InitFilename ==
  /\ reqRange = None
  /\ Fresh
  /\ arg \in FilenameInputs
  /\ result = << >>
  /\ heap = InitialHeap
  /\ tasks = << >>

CallMakeFilename ==
  /\ result = << >>
  /\ result' = << make_filename(arg) >>
  /\ UNCHANGED << Request, arg, heap, tasks >>

NextFilename == CallMakeFilename

SpecFilename == InitFilename /\ [][NextFilename]_vars

\* C18: for every title the UTF-8 name ends in .mp4 with a base of 1 to 80
\* characters, the ASCII name is not empty and holds only ASCII characters,
\* and an absent, empty or white-space-only title gives ("video.mp4",
\* "video.mp4").
C18_Blank(t) == ~t.some \/ \A i \in 1..Len(t.text) : t.text[i] \in {" ", "\t"}

C18_VideoMp4 == << "v", "i", "d", "e", "o", ".", "m", "p", "4" >>

C18_FilenameShape ==
  result # << >> =>
    LET fn_ascii == result[1][1]
        fn_utf8 == result[1][2]
        n == Len(fn_utf8)
    IN  /\ n >= 5 /\ n - 4 <= 80
        /\ SubSeq(fn_utf8, n - 3, n) = << ".", "m", "p", "4" >>
        /\ fn_ascii # << >>
        /\ \A i \in 1..Len(fn_ascii) : fn_ascii[i] # "U+044F"
        /\ C18_Blank(arg) => (fn_ascii = C18_VideoMp4 /\ fn_utf8 = C18_VideoMp4)

C18_Witness ==
  /\ result # << >> /\ Len(arg.text) = 82 /\ arg.text[80] = "a" /\ arg.text[81] = "U+044F"
  /\ Len(result[1][2]) = 84 /\ Len(result[1][1]) = 84

\* --------------------------------------------------- pick_format on its own
\* A format has an ext, a vcodec (a text, empty when the key is missing or
\* None), a height (<< >> when missing or None) and a url.
Avc1 == << "a", "v", "c", "1" >>
H264 == << "h", "2", "6", "4" >>
H265 == << "h", "2", "6", "5" >>

Formats ==
  [ext : {"mp4", "webm"}, vcodec : {<< >>, Avc1, H264, H265},
   height : {<< >>, << 100 >>, << 115 >>}, url : {None, "x", "y"}]

Infos ==
  [formats : UNION { [1..k -> Formats] : k \in 0..MaxFormats }, url : {None, "top"}]

\* str.startswith
StartsWith(s, prefix) ==
  Len(s) >= Len(prefix) /\ SubSeq(s, 1, Len(prefix)) = prefix

\* lines 44-50
score(f) ==
  (IF f.ext = "mp4" THEN 10 ELSE 0)
  + (IF StartsWith(f.vcodec, << "a", "v", "c" >>) \/ StartsWith(f.vcodec, H264)
       THEN 5 ELSE 0)
  + (IF f.height = << >> THEN 0 ELSE f.height[1])

\* variant: a later candidate with the same score replaces the earlier one
Better_OrEqual(s, best) == s >= best

\* max(): a candidate replaces the best one so far only with a greater key
Better(s, best) == s > best

\* max(fmts, key=score) of a list that is not empty: the index of the maximum
RECURSIVE MaxFrom(_, _, _)
MaxFrom(fmts, i, best) ==
  IF i > Len(fmts) THEN best
  ELSE MaxFrom(fmts, i + 1,
               IF Better(score(fmts[i]), score(fmts[best])) THEN i ELSE best)

\* lines 42-52
pick_format(info) ==
  IF info.formats = << >> THEN info.url
  ELSE info.formats[MaxFrom(info.formats, 2, 1)].url

InitPick ==
  /\ reqRange = None
  /\ Fresh
  /\ arg \in Infos
  /\ result = << >>
  /\ heap = InitialHeap
  /\ tasks = << >>

CallPickFormat ==
  /\ result = << >>
  /\ result' = << pick_format(arg) >>
  /\ UNCHANGED << Request, arg, heap, tasks >>

NextPick == CallPickFormat

SpecPick == InitPick /\ [][NextPick]_vars

\* C17: pick_format returns the URL of the candidate with the highest score
\* (10 for ext mp4, plus 5 for a vcodec that starts with avc or h264, plus the
\* height or 0), the first such candidate in list order; with no candidate it
\* returns the URL of the extraction result itself.
C17_Family(v) ==
  Len(v) >= 3 /\ (<< v[1], v[2], v[3] >> = << "a", "v", "c" >>
                    \/ (Len(v) >= 4 /\ << v[1], v[2], v[3], v[4] >> = << "h", "2", "6", "4" >>))

C17_Score(f) ==
  (IF f.ext = "mp4" THEN 10 ELSE 0) + (IF C17_Family(f.vcodec) THEN 5 ELSE 0)
  + (IF f.height = << >> THEN 0 ELSE f.height[1])

C17_HighestScoreFirstWins ==
  result # << >> =>
    LET fmts == arg.formats
    IN  IF fmts = << >> THEN result[1] = arg.url
        ELSE \E i \in 1..Len(fmts) :
               /\ \A j \in 1..Len(fmts) : C17_Score(fmts[j]) <= C17_Score(fmts[i])
               /\ \A j \in 1..(i - 1) : C17_Score(fmts[j]) < C17_Score(fmts[i])
               /\ result[1] = fmts[i].url

C17_Witness ==
  /\ result = << "x" >> /\ Len(arg.formats) = 2
  /\ arg.formats[1] = [ext |-> "mp4", vcodec |-> Avc1, height |-> << 100 >>, url |-> "x"]
  /\ arg.formats[2] = [ext |-> "webm", vcodec |-> H265, height |-> << 115 >>, url |-> "y"]

\* ------------------------------------------------ requests side by side
\* What a request brings with it: the handler it is for, its Range header,
\* the http_headers yt-dlp reports for the page, whether yt-dlp writes into
\* the options dict it was handed, and the length the probe learns.
InfoHeaders == {EmptyDict, [EmptyDict EXCEPT !["Cookie"] = "tt_chain_token"]}

StartTasks ==
  [kind : {"api", "dl"}, range : RangeVals \cup {None}, info : InfoHeaders,
   ydl_writes : BOOLEAN, head_len : {None, "3"},
   pc : {"start"}, opts : {NoObj}, hdrs : {NoObj}, req : {NoObj},
   client : {0}, sent : {EmptyDict}, status : {0}]

InitPair ==
  /\ reqRange = None
  /\ Fresh
  /\ arg = << >>
  /\ result = << >>
  /\ heap = InitialHeap
  /\ tasks \in [Tasks -> StartTasks]

\* dl is a coroutine: from its start to its first await (line 115) it runs
\* without another coroutine of the event loop in between; api is a plain
\* function and runs on a thread of its own
Runnable(i) ==
  tasks[i].kind = "dl" =>
    \A j \in Tasks \ {i} :
      tasks[j].kind = "dl" => tasks[j].pc \notin {"ydl", "merge", "client"}

\* variant: the dict is handed on as it is, not copied
CopyOf_Same(src, new) == src

\* dict.copy(): the object that stands for the copy
CopyOf(src, new) == new

\* d.setdefault(k, v) for every item of defaults
SetDefaults(d, defaults) ==
  [n \in ReqHdrNames |-> IF d[n] = None THEN defaults[n] ELSE d[n]]

\* lines 55-61: ydl_opts, with a copy of BASE_CLIENT_HEADERS
TaskOptions(i) ==
  /\ tasks[i].pc = "start"
  /\ Runnable(i)
  /\ LET o == CopyOf(BASE_CLIENT_HEADERS, Obj(i, "opts"))
     IN  /\ heap' = [heap EXCEPT ![Obj(i, "opts")] = heap[BASE_CLIENT_HEADERS]]
         /\ tasks' = [tasks EXCEPT ![i].opts = o, ![i].pc = "ydl"]
  /\ UNCHANGED << Request, arg, result >>

\* lines 62-63: yt-dlp runs; it may add to the headers it was handed, and it
\* reports the headers of the page in info
TaskYdl(i) ==
  /\ tasks[i].pc = "ydl"
  /\ Runnable(i)
  /\ heap' = [heap EXCEPT
                ![tasks[i].opts] = IF tasks[i].ydl_writes
                                     THEN [@ EXCEPT !["Cookie"] = "jar-" \o ToString(i)]
                                     ELSE @,
                ![Obj(i, "info")] = tasks[i].info]
  /\ tasks' = [tasks EXCEPT ![i].pc = "merge"]
  /\ UNCHANGED << Request, arg, result >>

\* lines 67-70 (and 88-90 for api): hdrs is a copy of info's headers, filled
\* up from BASE_CLIENT_HEADERS
TaskMerge(i) ==
  /\ tasks[i].pc = "merge"
  /\ Runnable(i)
  /\ LET h == CopyOf(Obj(i, "info"), Obj(i, "hdrs"))
         copied == [heap EXCEPT ![Obj(i, "hdrs")] = heap[Obj(i, "info")]]
     IN  /\ heap' = [copied EXCEPT ![h] = SetDefaults(copied[h], copied[BASE_CLIENT_HEADERS])]
         /\ tasks' = [tasks EXCEPT
                        ![i].hdrs = h,
                        ![i].pc = IF tasks[i].kind = "api" THEN "done" ELSE "client",
                        ![i].status = IF tasks[i].kind = "api" THEN 200 ELSE 0]
  /\ UNCHANGED << Request, arg, result >>

\* lines 107-111: a new httpx.AsyncClient
TaskClient(i) ==
  /\ tasks[i].pc = "client"
  /\ Runnable(i)
  /\ tasks' = [tasks EXCEPT
                 ![i].client = 1 + Cardinality({ j \in Tasks : tasks[j].client # 0 }),
                 ![i].pc = "probe"]
  /\ UNCHANGED << Request, arg, result, heap >>

\* lines 113-132: the warm-up and the probe, both awaited
TaskProbe(i) ==
  /\ tasks[i].pc = "probe"
  /\ Runnable(i)
  /\ tasks' = [tasks EXCEPT ![i].pc = "fetch"]
  /\ UNCHANGED << Request, arg, result, heap >>

\* what the resource server answers to a GET with these headers
Answer(sent) ==
  IF sent["Cookie"] = None THEN 404 ELSE IF sent["Range"] # None THEN 206 ELSE 200

\* lines 135-167: the GET of the resource, buffered (with base_headers) or
\* streamed (with req_headers, a copy of base_headers plus the Range header)
TaskFetch(i) ==
  /\ tasks[i].pc = "fetch"
  /\ Runnable(i)
  /\ LET t == tasks[i]
         wr == t.range # None
     IN  IF BufferDecision(wr, t.head_len)
           THEN /\ tasks' = [tasks EXCEPT
                               ![i].sent = heap[t.hdrs],
                               ![i].status = IF BadUpstream(Answer(heap[t.hdrs]))
                                               THEN 502 ELSE 200,
                               ![i].pc = "done"]
                /\ UNCHANGED heap
           ELSE LET r == CopyOf(t.hdrs, Obj(i, "req"))
                    copied == [heap EXCEPT ![Obj(i, "req")] = heap[t.hdrs]]
                    written == IF wr THEN [copied EXCEPT ![r]["Range"] = StreamRange(wr, t.range)]
                                     ELSE copied
                IN  /\ heap' = written
                    /\ tasks' = [tasks EXCEPT
                                   ![i].req = r,
                                   ![i].sent = written[r],
                                   ![i].status = StreamStatus([status |-> Answer(written[r])]),
                                   ![i].pc = "done"]
  /\ UNCHANGED << Request, arg, result >>

NextPair ==
  \E i \in Tasks :
    \/ TaskOptions(i)
    \/ TaskYdl(i)
    \/ TaskMerge(i)
    \/ TaskClient(i)
    \/ TaskProbe(i)
    \/ TaskFetch(i)

SpecPair == InitPair /\ [][NextPair]_vars

\* C16: two requests that run side by side share no mutable state: each has
\* its own client and its own header dicts, BASE_CLIENT_HEADERS keeps its
\* content, and each request sends and answers what it would have alone.
C16_AloneHeaders(t) ==
  LET merged == [n \in ReqHdrNames |-> IF t.info[n] # None THEN t.info[n] ELSE BaseHeaders[n]]
  IN  IF t.range # None THEN [merged EXCEPT !["Range"] = t.range] ELSE merged

C16_AloneStatus(t) ==
  LET up == IF C16_AloneHeaders(t)["Cookie"] = None THEN 404
            ELSE IF t.range # None THEN 206 ELSE 200
  IN  IF t.range = None /\ t.head_len = None
        THEN (IF up >= 400 THEN 502 ELSE 200) ELSE up

C16_NoSharedState ==
  /\ heap[BASE_CLIENT_HEADERS] = BaseHeaders
  /\ \A i \in Tasks :
       /\ \A k \in {"opts", "hdrs", "req"} : tasks[i][k] \in {NoObj, Obj(i, k)}
       /\ (tasks[i].kind = "dl" /\ tasks[i].pc = "done") =>
            /\ tasks[i].sent = C16_AloneHeaders(tasks[i])
            /\ tasks[i].status = C16_AloneStatus(tasks[i])
  /\ \A i, j \in Tasks :
       (i # j /\ tasks[i].client # 0 /\ tasks[j].client # 0) => tasks[i].client # tasks[j].client

C16_Witness ==
  /\ tasks # << >>
  /\ \A i \in Tasks : tasks[i].kind = "dl" /\ tasks[i].pc = "done" /\ tasks[i].ydl_writes
  /\ tasks[1].range # None /\ tasks[2].range = None
  /\ tasks[1].info # tasks[2].info
  /\ tasks[1].status = 206 /\ tasks[2].status = 502
  /\ tasks[1].client # tasks[2].client

====
